---- MODULE Spec2Model ----
(***************************************************************************)
(* A model of the prefixrun repository: RunningShoes                       *)
(* (src/runningshoes/runningshoes.py) discovers the files of a directory   *)
(* that carry an <integer>- prefix, orders them by that integer and runs   *)
(* them one after the other, keeping a record per file.                    *)
(*                                                                         *)
(* File names, directories and command tokens are sequences of             *)
(* one-character strings, so that split, int, splitext and string          *)
(* comparison are computed character by character as Python computes them. *)
(***************************************************************************)
EXTENDS Integers, Sequences, FiniteSets, TLC

\* Bounds of the model.
MaxFiles == 3      \* most entries in the directory listing
MaxRuns == 2       \* most calls of run() on one Runner
MaxClock == 1      \* the clocks stop advancing at this reading

----------------------------------------------------------------------------
\* Characters and Python's str / int primitives.
\*
\* A character up to U+00FF is the string made of it; a character beyond
\* U+00FF is the string that names its code point, as "U+0663", and so is the
\* grave accent, "U+0060".

Digits == <<"0", "1", "2", "3", "4", "5", "6", "7", "8", "9">>

\* The printable characters of ASCII, U+0020 to U+007E, in code point order.
Ascii ==
    <<" ", "!", "\"", "#", "$", "%", "&", "'", "(", ")", "*", "+", ",", "-",
      ".", "/", "0", "1", "2", "3", "4", "5", "6", "7", "8", "9", ":", ";",
      "<", "=", ">", "?", "@", "A", "B", "C", "D", "E", "F", "G", "H", "I",
      "J", "K", "L", "M", "N", "O", "P", "Q", "R", "S", "T", "U", "V", "W",
      "X", "Y", "Z", "[", "\\", "]", "^", "_", "U+0060", "a", "b", "c", "d", "e",
      "f", "g", "h", "i", "j", "k", "l", "m", "n", "o", "p", "q", "r", "s",
      "t", "u", "v", "w", "x", "y", "z", "{", "|", "}", "~">>

\* The zero of every run of ten decimal digits (Unicode category Nd) beyond
\* ASCII; the digits 1 to 9 of a run are the nine code points after its zero.
UnicodeZeros ==
    <<1632, 1776, 1984, 2406, 2534, 2662, 2790, 2918, 3046, 3174, 3302,
      3430, 3558, 3664, 3792, 3872, 4160, 4240, 6112, 6160, 6470, 6608,
      6784, 6800, 6992, 7088, 7232, 7248, 42528, 43216, 43264, 43472, 43504,
      43600, 44016, 65296, 66720, 68912, 69734, 69872, 69942, 70096, 70384,
      70736, 70864, 71248, 71360, 71472, 71904, 72016, 72784, 73040, 73120,
      92768, 92864, 93008, 120782, 120792, 120802, 120812, 120822, 123200,
      123632, 125264, 130032>>

\* The digits of those runs as characters, run after run, each run from its
\* zero to its nine.
UnicodeDigits ==
    <<"U+0660", "U+0661", "U+0662", "U+0663", "U+0664", "U+0665", "U+0666", "U+0667", "U+0668", "U+0669",
      "U+06F0", "U+06F1", "U+06F2", "U+06F3", "U+06F4", "U+06F5", "U+06F6", "U+06F7", "U+06F8", "U+06F9",
      "U+07C0", "U+07C1", "U+07C2", "U+07C3", "U+07C4", "U+07C5", "U+07C6", "U+07C7", "U+07C8", "U+07C9",
      "U+0966", "U+0967", "U+0968", "U+0969", "U+096A", "U+096B", "U+096C", "U+096D", "U+096E", "U+096F",
      "U+09E6", "U+09E7", "U+09E8", "U+09E9", "U+09EA", "U+09EB", "U+09EC", "U+09ED", "U+09EE", "U+09EF",
      "U+0A66", "U+0A67", "U+0A68", "U+0A69", "U+0A6A", "U+0A6B", "U+0A6C", "U+0A6D", "U+0A6E", "U+0A6F",
      "U+0AE6", "U+0AE7", "U+0AE8", "U+0AE9", "U+0AEA", "U+0AEB", "U+0AEC", "U+0AED", "U+0AEE", "U+0AEF",
      "U+0B66", "U+0B67", "U+0B68", "U+0B69", "U+0B6A", "U+0B6B", "U+0B6C", "U+0B6D", "U+0B6E", "U+0B6F",
      "U+0BE6", "U+0BE7", "U+0BE8", "U+0BE9", "U+0BEA", "U+0BEB", "U+0BEC", "U+0BED", "U+0BEE", "U+0BEF",
      "U+0C66", "U+0C67", "U+0C68", "U+0C69", "U+0C6A", "U+0C6B", "U+0C6C", "U+0C6D", "U+0C6E", "U+0C6F",
      "U+0CE6", "U+0CE7", "U+0CE8", "U+0CE9", "U+0CEA", "U+0CEB", "U+0CEC", "U+0CED", "U+0CEE", "U+0CEF",
      "U+0D66", "U+0D67", "U+0D68", "U+0D69", "U+0D6A", "U+0D6B", "U+0D6C", "U+0D6D", "U+0D6E", "U+0D6F",
      "U+0DE6", "U+0DE7", "U+0DE8", "U+0DE9", "U+0DEA", "U+0DEB", "U+0DEC", "U+0DED", "U+0DEE", "U+0DEF",
      "U+0E50", "U+0E51", "U+0E52", "U+0E53", "U+0E54", "U+0E55", "U+0E56", "U+0E57", "U+0E58", "U+0E59",
      "U+0ED0", "U+0ED1", "U+0ED2", "U+0ED3", "U+0ED4", "U+0ED5", "U+0ED6", "U+0ED7", "U+0ED8", "U+0ED9",
      "U+0F20", "U+0F21", "U+0F22", "U+0F23", "U+0F24", "U+0F25", "U+0F26", "U+0F27", "U+0F28", "U+0F29",
      "U+1040", "U+1041", "U+1042", "U+1043", "U+1044", "U+1045", "U+1046", "U+1047", "U+1048", "U+1049",
      "U+1090", "U+1091", "U+1092", "U+1093", "U+1094", "U+1095", "U+1096", "U+1097", "U+1098", "U+1099",
      "U+17E0", "U+17E1", "U+17E2", "U+17E3", "U+17E4", "U+17E5", "U+17E6", "U+17E7", "U+17E8", "U+17E9",
      "U+1810", "U+1811", "U+1812", "U+1813", "U+1814", "U+1815", "U+1816", "U+1817", "U+1818", "U+1819",
      "U+1946", "U+1947", "U+1948", "U+1949", "U+194A", "U+194B", "U+194C", "U+194D", "U+194E", "U+194F",
      "U+19D0", "U+19D1", "U+19D2", "U+19D3", "U+19D4", "U+19D5", "U+19D6", "U+19D7", "U+19D8", "U+19D9",
      "U+1A80", "U+1A81", "U+1A82", "U+1A83", "U+1A84", "U+1A85", "U+1A86", "U+1A87", "U+1A88", "U+1A89",
      "U+1A90", "U+1A91", "U+1A92", "U+1A93", "U+1A94", "U+1A95", "U+1A96", "U+1A97", "U+1A98", "U+1A99",
      "U+1B50", "U+1B51", "U+1B52", "U+1B53", "U+1B54", "U+1B55", "U+1B56", "U+1B57", "U+1B58", "U+1B59",
      "U+1BB0", "U+1BB1", "U+1BB2", "U+1BB3", "U+1BB4", "U+1BB5", "U+1BB6", "U+1BB7", "U+1BB8", "U+1BB9",
      "U+1C40", "U+1C41", "U+1C42", "U+1C43", "U+1C44", "U+1C45", "U+1C46", "U+1C47", "U+1C48", "U+1C49",
      "U+1C50", "U+1C51", "U+1C52", "U+1C53", "U+1C54", "U+1C55", "U+1C56", "U+1C57", "U+1C58", "U+1C59",
      "U+A620", "U+A621", "U+A622", "U+A623", "U+A624", "U+A625", "U+A626", "U+A627", "U+A628", "U+A629",
      "U+A8D0", "U+A8D1", "U+A8D2", "U+A8D3", "U+A8D4", "U+A8D5", "U+A8D6", "U+A8D7", "U+A8D8", "U+A8D9",
      "U+A900", "U+A901", "U+A902", "U+A903", "U+A904", "U+A905", "U+A906", "U+A907", "U+A908", "U+A909",
      "U+A9D0", "U+A9D1", "U+A9D2", "U+A9D3", "U+A9D4", "U+A9D5", "U+A9D6", "U+A9D7", "U+A9D8", "U+A9D9",
      "U+A9F0", "U+A9F1", "U+A9F2", "U+A9F3", "U+A9F4", "U+A9F5", "U+A9F6", "U+A9F7", "U+A9F8", "U+A9F9",
      "U+AA50", "U+AA51", "U+AA52", "U+AA53", "U+AA54", "U+AA55", "U+AA56", "U+AA57", "U+AA58", "U+AA59",
      "U+ABF0", "U+ABF1", "U+ABF2", "U+ABF3", "U+ABF4", "U+ABF5", "U+ABF6", "U+ABF7", "U+ABF8", "U+ABF9",
      "U+FF10", "U+FF11", "U+FF12", "U+FF13", "U+FF14", "U+FF15", "U+FF16", "U+FF17", "U+FF18", "U+FF19",
      "U+104A0", "U+104A1", "U+104A2", "U+104A3", "U+104A4", "U+104A5", "U+104A6", "U+104A7", "U+104A8", "U+104A9",
      "U+10D30", "U+10D31", "U+10D32", "U+10D33", "U+10D34", "U+10D35", "U+10D36", "U+10D37", "U+10D38", "U+10D39",
      "U+11066", "U+11067", "U+11068", "U+11069", "U+1106A", "U+1106B", "U+1106C", "U+1106D", "U+1106E", "U+1106F",
      "U+110F0", "U+110F1", "U+110F2", "U+110F3", "U+110F4", "U+110F5", "U+110F6", "U+110F7", "U+110F8", "U+110F9",
      "U+11136", "U+11137", "U+11138", "U+11139", "U+1113A", "U+1113B", "U+1113C", "U+1113D", "U+1113E", "U+1113F",
      "U+111D0", "U+111D1", "U+111D2", "U+111D3", "U+111D4", "U+111D5", "U+111D6", "U+111D7", "U+111D8", "U+111D9",
      "U+112F0", "U+112F1", "U+112F2", "U+112F3", "U+112F4", "U+112F5", "U+112F6", "U+112F7", "U+112F8", "U+112F9",
      "U+11450", "U+11451", "U+11452", "U+11453", "U+11454", "U+11455", "U+11456", "U+11457", "U+11458", "U+11459",
      "U+114D0", "U+114D1", "U+114D2", "U+114D3", "U+114D4", "U+114D5", "U+114D6", "U+114D7", "U+114D8", "U+114D9",
      "U+11650", "U+11651", "U+11652", "U+11653", "U+11654", "U+11655", "U+11656", "U+11657", "U+11658", "U+11659",
      "U+116C0", "U+116C1", "U+116C2", "U+116C3", "U+116C4", "U+116C5", "U+116C6", "U+116C7", "U+116C8", "U+116C9",
      "U+11730", "U+11731", "U+11732", "U+11733", "U+11734", "U+11735", "U+11736", "U+11737", "U+11738", "U+11739",
      "U+118E0", "U+118E1", "U+118E2", "U+118E3", "U+118E4", "U+118E5", "U+118E6", "U+118E7", "U+118E8", "U+118E9",
      "U+11950", "U+11951", "U+11952", "U+11953", "U+11954", "U+11955", "U+11956", "U+11957", "U+11958", "U+11959",
      "U+11C50", "U+11C51", "U+11C52", "U+11C53", "U+11C54", "U+11C55", "U+11C56", "U+11C57", "U+11C58", "U+11C59",
      "U+11D50", "U+11D51", "U+11D52", "U+11D53", "U+11D54", "U+11D55", "U+11D56", "U+11D57", "U+11D58", "U+11D59",
      "U+11DA0", "U+11DA1", "U+11DA2", "U+11DA3", "U+11DA4", "U+11DA5", "U+11DA6", "U+11DA7", "U+11DA8", "U+11DA9",
      "U+16A60", "U+16A61", "U+16A62", "U+16A63", "U+16A64", "U+16A65", "U+16A66", "U+16A67", "U+16A68", "U+16A69",
      "U+16AC0", "U+16AC1", "U+16AC2", "U+16AC3", "U+16AC4", "U+16AC5", "U+16AC6", "U+16AC7", "U+16AC8", "U+16AC9",
      "U+16B50", "U+16B51", "U+16B52", "U+16B53", "U+16B54", "U+16B55", "U+16B56", "U+16B57", "U+16B58", "U+16B59",
      "U+1D7CE", "U+1D7CF", "U+1D7D0", "U+1D7D1", "U+1D7D2", "U+1D7D3", "U+1D7D4", "U+1D7D5", "U+1D7D6", "U+1D7D7",
      "U+1D7D8", "U+1D7D9", "U+1D7DA", "U+1D7DB", "U+1D7DC", "U+1D7DD", "U+1D7DE", "U+1D7DF", "U+1D7E0", "U+1D7E1",
      "U+1D7E2", "U+1D7E3", "U+1D7E4", "U+1D7E5", "U+1D7E6", "U+1D7E7", "U+1D7E8", "U+1D7E9", "U+1D7EA", "U+1D7EB",
      "U+1D7EC", "U+1D7ED", "U+1D7EE", "U+1D7EF", "U+1D7F0", "U+1D7F1", "U+1D7F2", "U+1D7F3", "U+1D7F4", "U+1D7F5",
      "U+1D7F6", "U+1D7F7", "U+1D7F8", "U+1D7F9", "U+1D7FA", "U+1D7FB", "U+1D7FC", "U+1D7FD", "U+1D7FE", "U+1D7FF",
      "U+1E140", "U+1E141", "U+1E142", "U+1E143", "U+1E144", "U+1E145", "U+1E146", "U+1E147", "U+1E148", "U+1E149",
      "U+1E2F0", "U+1E2F1", "U+1E2F2", "U+1E2F3", "U+1E2F4", "U+1E2F5", "U+1E2F6", "U+1E2F7", "U+1E2F8", "U+1E2F9",
      "U+1E950", "U+1E951", "U+1E952", "U+1E953", "U+1E954", "U+1E955", "U+1E956", "U+1E957", "U+1E958", "U+1E959",
      "U+1FBF0", "U+1FBF1", "U+1FBF2", "U+1FBF3", "U+1FBF4", "U+1FBF5", "U+1FBF6", "U+1FBF7", "U+1FBF8", "U+1FBF9">>

\* The characters int() drops at both ends of its argument, in code point
\* order, and their code points.
WhitespaceChars ==
    <<"\t", "\n", "", "\f", "\r", " ", "", " ", "U+1680", "U+2000",
      "U+2001", "U+2002", "U+2003", "U+2004", "U+2005", "U+2006", "U+2007",
      "U+2008", "U+2009", "U+200A", "U+2028", "U+2029", "U+202F", "U+205F",
      "U+3000">>

WhitespaceOrds ==
    <<9, 10, 11, 12, 13, 32, 133, 160, 5760, 8192, 8193, 8194, 8195, 8196,
      8197, 8198, 8199, 8200, 8201, 8202, 8232, 8233, 8239, 8287, 12288>>

Whitespace == {WhitespaceChars[i] : i \in 1..Len(WhitespaceChars)}

\* The decimal digits of every script, ASCII first: the digit at place k has
\* the value (k - 1) % 10.
DecimalDigits == Digits \o UnicodeDigits

\* A decimal digit for int(): of ASCII or of any other script.
IsDigit(c) == \E k \in 1..Len(DecimalDigits) : DecimalDigits[k] = c

DigitVal(c) ==
    ((CHOOSE k \in 1..Len(DecimalDigits) : DecimalDigits[k] = c) - 1) % 10

\* Code point of a character, the key of Python's string comparison.
ord(c) ==
    IF \E i \in 1..Len(Ascii) : Ascii[i] = c
      THEN 31 + (CHOOSE i \in 1..Len(Ascii) : Ascii[i] = c)
    ELSE IF c \in Whitespace
      THEN WhitespaceOrds[CHOOSE i \in 1..Len(WhitespaceChars) :
                             WhitespaceChars[i] = c]
    ELSE LET k == CHOOSE i \in 1..Len(UnicodeDigits) : UnicodeDigits[i] = c
         IN  UnicodeZeros[((k - 1) \div 10) + 1] + ((k - 1) % 10)

\* s < t for Python strings: lexicographic by code point, a proper prefix first.
RECURSIVE StrLess(_, _)
StrLess(s, t) ==
    IF t = <<>> THEN FALSE
    ELSE IF s = <<>> THEN TRUE
    ELSE IF Head(s) # Head(t) THEN ord(Head(s)) < ord(Head(t))
    ELSE StrLess(Tail(s), Tail(t))

\* s.split(sep): the pieces of s between the occurrences of the character sep.
RECURSIVE split(_, _)
split(s, sep) ==
    IF \A i \in 1..Len(s) : s[i] # sep THEN <<s>>
    ELSE LET k == CHOOSE i \in 1..Len(s) :
                      s[i] = sep /\ \A j \in 1..(i - 1) : s[j] # sep
         IN  <<SubSeq(s, 1, k - 1)>> \o split(SubSeq(s, k + 1, Len(s)), sep)

\* The trimming int(s) performs: the whitespace at both ends of s is dropped.
RECURSIVE strip(_)
strip(s) ==
    IF s = <<>> THEN s
    ELSE IF Head(s) \in Whitespace THEN strip(Tail(s))
    ELSE IF s[Len(s)] \in Whitespace THEN strip(SubSeq(s, 1, Len(s) - 1))
    ELSE s

RECURSIVE DigitsValue(_)
DigitsValue(s) ==
    IF s = <<>> THEN 0
    ELSE 10 * DigitsValue(SubSeq(s, 1, Len(s) - 1)) + DigitVal(s[Len(s)])

\* The decimal digits of a literal, its grouping underscores left out.
RECURSIVE DigitsOnly(_)
DigitsOnly(s) ==
    IF s = <<>> THEN <<>>
    ELSE (IF Head(s) = "_" THEN <<>> ELSE <<Head(s)>>) \o DigitsOnly(Tail(s))

\* int(s) of Python 3.6 and later: the whitespace around the literal is
\* dropped, one sign is allowed, and the rest must be decimal digits of any
\* script, with single underscores allowed between two digits; anything else
\* raises ValueError (ok = FALSE).
int(s) ==
    LET t == strip(s)
        neg == t # <<>> /\ Head(t) = "-"
        body == IF t # <<>> /\ Head(t) \in {"+", "-"} THEN Tail(t) ELSE t
        good == /\ body # <<>>
                /\ \A i \in 1..Len(body) :
                       \/ IsDigit(body[i])
                       \/ /\ body[i] = "_"
                          /\ 1 < i /\ i < Len(body)
                          /\ IsDigit(body[i - 1]) /\ IsDigit(body[i + 1])
        value == DigitsValue(DigitsOnly(body))
    IN  [ok |-> good,
         val |-> IF good THEN (IF neg THEN 0 - value ELSE value) ELSE 0]

\* os.path.splitext(p) on POSIX: the extension starts at the last dot of the
\* last path component, unless that component has only leading dots before it.
rfind(p, c) ==
    IF \E i \in 1..Len(p) : p[i] = c
      THEN CHOOSE i \in 1..Len(p) : p[i] = c /\ \A j \in (i + 1)..Len(p) : p[j] # c
      ELSE 0

splitext(p) ==
    LET sepIndex == rfind(p, "/")
        dotIndex == rfind(p, ".")
    IN  IF dotIndex > sepIndex
           /\ \E k \in (sepIndex + 1)..(dotIndex - 1) : p[k] # "."
          THEN <<SubSeq(p, 1, dotIndex - 1), SubSeq(p, dotIndex, Len(p))>>
          ELSE <<p, <<>>>>

Max(a, b) == IF a > b THEN a ELSE b

\* The program reads two clocks, in whole seconds here: time.time(), and the
\* C library's time() behind time.strftime('%c'), which lags time.time() by a
\* few milliseconds and so can still show the second before.  Neither goes
\* back, and time.time() is never behind time().
\*
\* The readings a clock can give, t being the latest of its own last reading
\* and, for time.time(), the last reading of time(): t or any later second,
\* up to the last reading of the model.  Time passes while a child runs, while
\* the caller waits between two runs, and between two statements.
tick(t) == t..MaxClock

\* The seconds time.strftime('%c') can show when time.time() has just given t
\* and strftime last showed the second shown.
lagging(t, shown) == tick(Max(shown, t - 1))

\* time.strftime('%c'): the clock reading rendered as a locale date string.
strftime(t) == <<"%c", t>>

\* The latest second strftime has shown so far: every value it returned is
\* kept as the start_time or end_time of a record, and no record is dropped.
last_shown(info) ==
    LET shown == UNION {{info[f][k][2] :
                            k \in DOMAIN info[f] \cap {"start_time", "end_time"}} :
                        f \in DOMAIN info}
    IN  IF shown = {} THEN 0 ELSE CHOOSE m \in shown : \A t \in shown : t <= m

----------------------------------------------------------------------------
\* RunningShoes: construction.

\* Variant of ensure_trailing_slash: the separator is appended in every case.
ensure_trailing_slash_always(directory) == directory \o <<"/">>

ensure_trailing_slash(directory) ==
    IF directory[Len(directory)] # "/" THEN directory \o <<"/">> ELSE directory

\* Command tokens.
Tok_hive    == <<"h", "i", "v", "e">>
Tok_f       == <<"-", "f">>
Tok_python  == <<"p", "y", "t", "h", "o", "n">>
Tok_Rscript == <<"R", "s", "c", "r", "i", "p", "t">>
Tok_scala   == <<"s", "c", "a", "l", "a">>
Tok_bash    == <<"b", "a", "s", "h">>
Tok_zsh     == <<"z", "s", "h">>
Tok_cat     == <<"c", "a", "t">>

\* File extensions.
Ext_hql   == <<".", "h", "q", "l">>
Ext_py    == <<".", "p", "y">>
Ext_R     == <<".", "R">>
Ext_scala == <<".", "s", "c", "a", "l", "a">>
Ext_sh    == <<".", "s", "h">>
Ext_txt   == <<".", "t", "x", "t">>

default_extensions ==
    (Ext_hql :> <<Tok_hive, Tok_f>>)
    @@ (Ext_py :> <<Tok_python>>)
    @@ (Ext_R :> <<Tok_Rscript>>)
    @@ (Ext_scala :> <<Tok_scala>>)
    @@ (Ext_sh :> <<Tok_bash>>)

\* Variant of merge_extensions: a custom mapping replaces the defaults.
merge_extensions_replace(defaults, custom) ==
    IF custom.given THEN custom.map ELSE defaults

\* __init__, lines 70-73: the defaults, then every custom entry assigned over
\* them.  custom.given = FALSE stands for custom_extensions = None.
merge_extensions(defaults, custom) ==
    IF custom.given
      THEN [k \in DOMAIN defaults \cup DOMAIN custom.map |->
               IF k \in DOMAIN custom.map THEN custom.map[k] ELSE defaults[k]]
      ELSE defaults

\* Variant of should_we_run_this_file: a leading hyphen is read as the sign of
\* the integer that follows it.
should_we_run_this_file_signed(file_name) ==
    LET parts == split(file_name, "-")
    IN  IF Len(parts) < 2 THEN [run |-> FALSE, order |-> 0]
        ELSE IF parts[1] = <<>> /\ Len(parts) >= 3 /\ int(parts[2]).ok
          THEN [run |-> TRUE, order |-> 0 - int(parts[2]).val]
        ELSE IF ~int(parts[1]).ok THEN [run |-> FALSE, order |-> 0]
        ELSE [run |-> TRUE, order |-> int(parts[1]).val]

\* Returns False (run = FALSE) or the pair (True, int(parts[0])).
should_we_run_this_file(file_name) ==
    LET parts == split(file_name, "-")
    IN  IF Len(parts) < 2 THEN [run |-> FALSE, order |-> 0]
        ELSE IF ~int(parts[1]).ok THEN [run |-> FALSE, order |-> 0]
        ELSE [run |-> TRUE, order |-> int(parts[1]).val]

\* [order, name] < [order, name] for Python lists.
PairLess(a, b) ==
    \/ a[1] < b[1]
    \/ a[1] = b[1] /\ StrLess(a[2], b[2])

\* Variant of sorted: the pairs are left in the order of the listing.
sorted_as_listed(s) == s

RECURSIVE sorted(_)
sorted(s) ==
    IF s = <<>> THEN <<>>
    ELSE LET rest == sorted(Tail(s))
             x == Head(s)
             k == Cardinality({i \in 1..Len(rest) : ~PairLess(x, rest[i])})
         IN  SubSeq(rest, 1, k) \o <<x>> \o SubSeq(rest, k + 1, Len(rest))

RECURSIVE SelectPairs(_)
SelectPairs(entries) ==
    IF entries = <<>> THEN <<>>
    ELSE LET r == should_we_run_this_file(Head(entries))
         IN  (IF r.run THEN <<<<r.order, Head(entries)>>>> ELSE <<>>)
             \o SelectPairs(Tail(entries))

\* Variant of identify_files: the uniqueness test is made on the names.
identify_files_by_name(entries) ==
    LET files_orders == sorted(SelectPairs(entries))
        files == [i \in 1..Len(files_orders) |-> files_orders[i][2]]
    IN  IF files_orders = <<>>
          THEN [outcome |-> "ValueError", files |-> <<>>]
        ELSE IF Len(files) # Cardinality({files[i] : i \in 1..Len(files)})
          THEN [outcome |-> "Exception", files |-> <<>>]
        ELSE [outcome |-> "ok", files |-> files]

\* identify_files over the listing os.listdir returned.  The outcome is "ok"
\* with the tuple of names, "ValueError" when zip(*[]) leaves nothing to
\* unpack into (orders, files), or "Exception" on a repeated order.
identify_files(entries) ==
    LET files_orders == sorted(SelectPairs(entries))
        orders == [i \in 1..Len(files_orders) |-> files_orders[i][1]]
        files == [i \in 1..Len(files_orders) |-> files_orders[i][2]]
    IN  IF files_orders = <<>>
          THEN [outcome |-> "ValueError", files |-> <<>>]
        ELSE IF Len(orders) # Cardinality({orders[i] : i \in 1..Len(orders)})
          THEN [outcome |-> "Exception", files |-> <<>>]
        ELSE [outcome |-> "ok", files |-> files]

----------------------------------------------------------------------------
\* RunningShoes: records and the report.

\* run_files, lines 149-152: the record of a file that starts, replacing any
\* record the file had.
record_start(info, file, t) ==
    [f \in DOMAIN info \cup {file} |->
        IF f = file THEN [ran |-> TRUE, start_time |-> strftime(t)] ELSE info[f]]

\* (time.time() - start) / 60, kept as the exact fraction <<seconds, 60>>.
elapsed_minutes(t, start_t) == <<t - start_t, 60>>

\* Variant of record_success: the end of the file is not recorded.
record_success_no_end(rec, t_end, t, start_t) == rec

\* run_files, lines 155-157: run_file returned.
record_success(rec, t_end, t, start_t) ==
    [end_time |-> strftime(t_end), elapsed |-> elapsed_minutes(t, start_t)] @@ rec

\* Variant of record_failure: ran keeps the value set when the file started.
record_failure_keeps_ran(rec, t_end, t, start_t) ==
    [end_time |-> strftime(t_end), elapsed |-> elapsed_minutes(t, start_t)] @@ rec

\* run_files, lines 159-162: run_file raised.
record_failure(rec, t_end, t, start_t) ==
    [ran |-> FALSE, end_time |-> strftime(t_end),
     elapsed |-> elapsed_minutes(t, start_t)] @@ rec

\* Variant of run_file_call: the file is designated by its bare name.
run_file_call_bare(exts, file_name) ==
    exts[splitext(file_name)[2]]
        \o <<SubSeq(file_name, rfind(file_name, "/") + 1, Len(file_name))>>

\* run_file, lines 137-138: the command handed to subprocess.call.
run_file_call(exts, file_name) ==
    exts[splitext(file_name)[2]] \o <<file_name>>

\* Variant of success_string: a failed file is shown like a missing record.
success_string_na(b) == IF b THEN "Success" ELSE "NA"

success_string(b) == IF b THEN "Success" ELSE "Failure"

\* Variant of format_file_data: enumerate without start = 1.
format_file_data_from_zero(fs, info) ==
    [order \in 1..Len(fs) |->
        LET file == fs[order]
        IN  IF file \in DOMAIN info
              THEN <<order - 1, file, info[file].start_time, info[file].end_time,
                     info[file].elapsed,
                     IF info[file].ran THEN "Success" ELSE "Failure">>
              ELSE <<order - 1, file, "NA", "NA", "NA", "NA">>]

\* A record read by format_file_data (lines 177-180) must hold all four keys,
\* or the read raises KeyError.
can_format(fs, info) ==
    \A i \in 1..Len(fs) :
        fs[i] \in DOMAIN info =>
            {"start_time", "end_time", "elapsed", "ran"} \subseteq DOMAIN info[fs[i]]

format_file_data(fs, info) ==
    [order \in 1..Len(fs) |->
        LET file == fs[order]
        IN  IF file \in DOMAIN info
              THEN <<order, file, info[file].start_time, info[file].end_time,
                     info[file].elapsed, success_string(info[file].ran)>>
              ELSE <<order, file, "NA", "NA", "NA", "NA">>]

----------------------------------------------------------------------------
\* Inputs.

Name_1c    == <<"1", "-", "c", ".", "p", "y">>
Name_2b    == <<"2", "-", "b", ".", "p", "y">>
Name_10a   == <<"1", "0", "-", "a", ".", "s", "h">>
Name_02c   == <<"0", "2", "-", "c", ".", "s", "h">>
Name_3txt  == <<"3", "-", "x", ".", "t", "x", "t">>
Name_plain == <<"a", ".", "p", "y">>
Name_word  == <<"x", "-", "1", ".", "s", "h">>
Name_dash  == <<"-", "1", "-", "x", ".", "s", "h">>

NamePool ==
    {Name_1c, Name_2b, Name_10a, Name_02c, Name_3txt, Name_plain, Name_word,
     Name_dash}

\* The directories of the model: at most MaxFiles names of the pool.
Directories == {d \in SUBSET NamePool : Cardinality(d) <= MaxFiles}

\* The directories whose files are run: every name is eligible, the orders
\* differ, and one extension needs custom_extensions to have a program.
RunPool == {Name_1c, Name_2b, Name_10a, Name_3txt}

RunDirectories == {d \in SUBSET RunPool : Cardinality(d) <= MaxFiles}

\* What os.listdir can return for a directory that holds the names d: each
\* name once, in an arbitrary order.
Listings(d) ==
    {l \in [1..Cardinality(d) -> d] :
        \A i, j \in 1..Cardinality(d) : i # j => l[i] # l[j]}

\* The arguments a Runner is constructed with: a directory without and with
\* its trailing separator; no custom extensions, one that replaces a default
\* and one that adds to the defaults.
ConstructorArguments ==
    {[directory |-> <<"d">>,
      custom_extensions |-> [given |-> FALSE, map |-> <<>>]],
     [directory |-> <<"d", "/">>,
      custom_extensions |-> [given |-> TRUE, map |-> (Ext_sh :> <<Tok_zsh>>)]],
     [directory |-> <<"d">>,
      custom_extensions |-> [given |-> TRUE, map |-> (Ext_txt :> <<Tok_cat>>)]]}

----------------------------------------------------------------------------
\* State.

VARIABLES
    entries,      \* the names that are in the directory
    dirArg,       \* the directory argument of the constructor
    custom,       \* the custom_extensions argument of the constructor
    pc,           \* "new", "init_failed", "idle", "loop", "call", "finally"
    err,          \* the exception that left the last constructor or run() call
    exc,          \* the exception propagating inside run()
    directory,    \* self.directory
    files,        \* self.files
    extensions,   \* self.extensions
    info,         \* self.file_data['info']
    idx,          \* position of the loop of run_files (enumerate index)
    start,        \* the local start of run_files
    now,          \* the last clock reading taken, in seconds
    rc,           \* the outcome of subprocess.call for the current file:
                  \* "none" (not called), "exit0", "exit1" or "raised"
    calls,        \* the commands handed to subprocess.call in the current run
    printed,      \* the rows of the report printed in the current run
    runs,         \* number of run() calls so far
    shown,        \* the rows format_file_data returned to the caller since
                  \* the last call of run(), <<>> if it was not called
    prefixrun     \* the PrefixRun object (src/prefixrun/prefixrun.py)

vars == <<entries, dirArg, custom, pc, err, exc, directory, files, extensions,
          info, idx, start, now, rc, calls, printed, runs, shown, prefixrun>>

inputs == <<entries, dirArg, custom>>

\* The state before RunningShoes(directory, custom_extensions) is called, the
\* directory being one of dirs.
Start(dirs) ==
    /\ entries \in dirs
    /\ \E a \in ConstructorArguments :
           /\ dirArg = a.directory
           /\ custom = a.custom_extensions
    /\ pc = "new"
    /\ err = "none"
    /\ exc = "none"
    /\ directory = <<>>
    /\ files = <<>>
    /\ extensions = <<>>
    /\ info = <<>>
    /\ idx = 0
    /\ start = 0
    /\ now = 0
    /\ rc = "none"
    /\ calls = <<>>
    /\ printed = <<>>
    /\ runs = 0
    /\ shown = <<>>
    /\ prefixrun = [pc |-> "new", directory |-> <<>>, extensions |-> <<>>,
                    file_data |-> <<>>, err |-> "none"]

\* The directories whose files are then run.
Init == Start(RunDirectories)

\* Every directory of the pool, for discovery.
InitDiscovery == Start(Directories)

\* __init__ (lines 68-80).  identify_files runs before the extensions and
\* file_data are set, so an exception there leaves no Runner behind.
Construct ==
    /\ pc = "new"
    /\ \E listing \in Listings(entries) :
          LET d == ensure_trailing_slash(dirArg)
              r == identify_files(listing)
          IN  IF r.outcome = "ok"
                THEN /\ directory' = d
                     /\ files' = r.files
                     /\ extensions' = merge_extensions(default_extensions, custom)
                     /\ info' = <<>>
                     /\ pc' = "idle"
                     /\ err' = "none"
                ELSE /\ pc' = "init_failed"
                     /\ err' = r.outcome
                     /\ UNCHANGED <<directory, files, extensions, info>>
    /\ UNCHANGED <<inputs, prefixrun, shown, exc, idx, start, now, rc, calls, printed, runs>>

\* Variant of RunCall: after a failed run the loop resumes at the failed file.
RunCall_resume ==
    /\ pc = "idle"
    /\ runs < MaxRuns
    /\ pc' = "loop"
    /\ idx' = IF err # "none" THEN idx ELSE 1
    /\ runs' = runs + 1
    /\ err' = "none"
    /\ exc' = "none"
    /\ calls' = <<>>
    /\ rc' = "none"
    /\ shown' = <<>>
    /\ printed' = <<>>
    /\ UNCHANGED <<inputs, prefixrun, directory, files, extensions, info, start,
                   now>>

\* run() is called (line 204) and run_files starts its loop (line 147).
RunCall ==
    /\ pc = "idle"
    /\ runs < MaxRuns
    /\ pc' = "loop"
    /\ idx' = 1
    /\ runs' = runs + 1
    /\ err' = "none"
    /\ exc' = "none"
    /\ calls' = <<>>
    /\ rc' = "none"
    /\ shown' = <<>>
    /\ printed' = <<>>
    /\ UNCHANGED <<inputs, prefixrun, directory, files, extensions, info, start,
                   now>>

\* Variant of BeginFile: the record of the file after the next one is opened
\* along with it.
BeginFile_eager ==
    /\ pc = "loop"
    /\ idx <= Len(files)
    /\ start' \in tick(now)
    /\ now' \in lagging(start', last_shown(info))
    /\ info' = IF idx < Len(files)
                 THEN record_start(record_start(info, files[idx], now'),
                                   files[idx + 1], now')
                 ELSE record_start(info, files[idx], now')
    /\ rc' = "none"
    /\ pc' = "call"
    /\ UNCHANGED <<inputs, prefixrun, shown, err, exc, directory, files,
                   extensions, idx, calls, printed, runs>>

\* Lines 147-152: the next file starts.  time.time() is read for start
\* (line 148), then strftime for start_time (line 151): now is the second
\* strftime showed, which can be the one before start.
BeginFile ==
    /\ pc = "loop"
    /\ idx <= Len(files)
    /\ start' \in tick(now)
    /\ now' \in lagging(start', last_shown(info))
    /\ info' = record_start(info, files[idx], now')
    /\ rc' = "none"
    /\ pc' = "call"
    /\ UNCHANGED <<inputs, prefixrun, shown, err, exc, directory, files, extensions,
                   idx, calls, printed, runs>>

\* Line 138 raises KeyError: the extension has no command.  Nothing is
\* spawned; the except branch (lines 158-163) finalizes the record, reading
\* the clock for end_time (line 159) and again for elapsed (line 161).
InvokeKeyError ==
    /\ pc = "call"
    /\ splitext(directory \o files[idx])[2] \notin DOMAIN extensions
    /\ \E t_end \in tick(now) :
          /\ now' \in tick(Max(t_end, start))
          /\ info' = [info EXCEPT
                         ![files[idx]] = record_failure(@, t_end, now', start)]
    /\ exc' = "KeyError"
    /\ pc' = "finally"
    /\ UNCHANGED <<inputs, prefixrun, shown, err, directory, files, extensions, idx,
                   start, rc, calls, printed, runs>>

\* Variant of InvokeRaises: the exception is recorded and swallowed, and the
\* loop goes on with the next file.
InvokeRaises_swallow ==
    /\ pc = "call"
    /\ splitext(directory \o files[idx])[2] \in DOMAIN extensions
    /\ \E t_end \in tick(now) :
          /\ now' \in tick(Max(t_end, start))
          /\ info' = [info EXCEPT
                         ![files[idx]] = record_failure(@, t_end, now', start)]
    /\ calls' = Append(calls, run_file_call(extensions, directory \o files[idx]))
    /\ rc' = "raised"
    /\ idx' = idx + 1
    /\ pc' = "loop"
    /\ UNCHANGED <<inputs, prefixrun, shown, err, exc, directory, files, extensions, start,
                   printed, runs>>

\* subprocess.call (line 139) raises, e.g. the interpreter is not installed.
InvokeRaises ==
    /\ pc = "call"
    /\ splitext(directory \o files[idx])[2] \in DOMAIN extensions
    /\ \E t_end \in tick(now) :
          /\ now' \in tick(Max(t_end, start))
          /\ info' = [info EXCEPT
                         ![files[idx]] = record_failure(@, t_end, now', start)]
    /\ calls' = Append(calls, run_file_call(extensions, directory \o files[idx]))
    /\ rc' = "raised"
    /\ exc' = "OSError"
    /\ pc' = "finally"
    /\ UNCHANGED <<inputs, prefixrun, shown, err, directory, files, extensions, idx, start,
                   printed, runs>>

\* Variant of InvokeReturns: a non-zero exit status is raised as an error
\* (subprocess.check_call in place of subprocess.call).
InvokeReturns_checked ==
    /\ pc = "call"
    /\ splitext(directory \o files[idx])[2] \in DOMAIN extensions
    /\ \E t_end \in tick(now), status \in 0..1 :
          /\ now' \in tick(Max(t_end, start))
          /\ rc' = IF status = 0 THEN "exit0" ELSE "exit1"
          /\ IF status = 0
               THEN /\ info' = [info EXCEPT
                                  ![files[idx]] = record_success(@, t_end, now', start)]
                    /\ idx' = idx + 1
                    /\ pc' = "loop"
                    /\ exc' = exc
               ELSE /\ info' = [info EXCEPT
                                  ![files[idx]] = record_failure(@, t_end, now', start)]
                    /\ idx' = idx
                    /\ pc' = "finally"
                    /\ exc' = "CalledProcessError"
    /\ calls' = Append(calls, run_file_call(extensions, directory \o files[idx]))
    /\ UNCHANGED <<inputs, prefixrun, shown, err, directory, files, extensions, start, printed,
                   runs>>

\* subprocess.call returns the exit status of the child, which run_file drops
\* (lines 139-140); lines 155-157 finalize the record, reading the clock for
\* end_time (line 155) and again for elapsed (line 157), and the loop goes on.
InvokeReturns ==
    /\ pc = "call"
    /\ splitext(directory \o files[idx])[2] \in DOMAIN extensions
    /\ \E t_end \in tick(now) :
          /\ now' \in tick(Max(t_end, start))
          /\ info' = [info EXCEPT
                         ![files[idx]] = record_success(@, t_end, now', start)]
    /\ \E status \in 0..1 : rc' = IF status = 0 THEN "exit0" ELSE "exit1"
    /\ calls' = Append(calls, run_file_call(extensions, directory \o files[idx]))
    /\ idx' = idx + 1
    /\ pc' = "loop"
    /\ UNCHANGED <<inputs, prefixrun, shown, err, exc, directory, files, extensions, start,
                   printed, runs>>

\* The loop is exhausted: run_files returns None (line 164).
LoopDone ==
    /\ pc = "loop"
    /\ idx > Len(files)
    /\ pc' = "finally"
    /\ UNCHANGED <<inputs, prefixrun, shown, err, exc, directory, files, extensions, info, idx,
                   start, now, rc, calls, printed, runs>>

\* run(), lines 209-211: the report is printed, then run() returns or the
\* exception of run_files goes on to the caller.  An exception raised while
\* the report is built would leave the finally block in its place.
RunFinally ==
    /\ pc = "finally"
    /\ IF can_format(files, info)
         THEN /\ printed' = format_file_data(files, info)
              /\ err' = exc
         ELSE /\ printed' = printed
              /\ err' = "KeyError"
    /\ exc' = "none"
    /\ pc' = "idle"
    /\ UNCHANGED <<inputs, prefixrun, shown, directory, files, extensions, info, idx, start, now,
                   rc, calls, runs>>

\* Variant of Render: a file without a record is given one while the rows are
\* built (a setdefault in place of get).
Render_creating ==
    /\ pc = "idle"
    /\ can_format(files, info)
    /\ info' = [f \in DOMAIN info \cup {files[i] : i \in 1..Len(files)} |->
                  IF f \in DOMAIN info
                    THEN info[f]
                    ELSE [ran |-> FALSE, start_time |-> strftime(now),
                          end_time |-> strftime(now),
                          elapsed |-> elapsed_minutes(now, now)]]
    /\ shown' = format_file_data(files, info')
    /\ UNCHANGED <<inputs, prefixrun, pc, err, exc, directory, files, extensions,
                   idx, start, now, rc, calls, printed, runs>>

\* format_file_data, called by the caller between two calls of run() (by
\* itself or through pretty_file_data, __str__ or __repr__): the rows are
\* returned and nothing of the Runner is assigned.
Render ==
    /\ pc = "idle"
    /\ can_format(files, info)
    /\ shown' = format_file_data(files, info)
    /\ UNCHANGED <<inputs, prefixrun, pc, err, exc, directory, files, extensions,
                   info, idx, start, now, rc, calls, printed, runs>>

\* The environment: between two runs the entries of the directory are
\* deleted.  The Runner does not see it, since os.listdir is only called by
\* __init__.
DirectoryChanges ==
    /\ pc = "idle"
    /\ runs >= 1
    /\ entries # {}
    /\ entries' = {}
    /\ UNCHANGED <<dirArg, custom, prefixrun, shown, pc, err, exc, directory,
                   files, extensions, info, idx, start, now, rc, calls, printed,
                   runs>>

----------------------------------------------------------------------------
\* PrefixRun (src/prefixrun/prefixrun.py), the variant that keeps its rows in
\* file_data.

\* Python's True as a number: bool is a subclass of int, True == 1 and
\* hash(True) == hash(1).
PyTrue == 1

\* Returns False (truthy = FALSE) or the pair (True, int(parts[0])).
PrefixRun_should_we_run_this_file(file_name) ==
    LET parts == split(file_name, "-")
    IN  IF Len(parts) < 2 THEN [truthy |-> FALSE, value |-> <<>>]
        ELSE IF ~int(parts[1]).ok THEN [truthy |-> FALSE, value |-> <<>>]
        ELSE [truthy |-> TRUE, value |-> <<PyTrue, int(parts[1]).val>>]

\* Lines 108-109: the pairs (should_we_run_this_file(f)[0], f) of the files
\* to run, in the order of the listing.
RECURSIVE PrefixRun_files_orders(_)
PrefixRun_files_orders(listing) ==
    IF listing = <<>> THEN <<>>
    ELSE LET r == PrefixRun_should_we_run_this_file(Head(listing))
         IN  (IF r.truthy THEN <<<<r.value[1], Head(listing)>>>> ELSE <<>>)
             \o PrefixRun_files_orders(Tail(listing))

\* sorted(pairs, key = lambda x: x[0]): stable, by the first component only.
RECURSIVE sorted_by_first(_)
sorted_by_first(s) ==
    IF s = <<>> THEN <<>>
    ELSE LET rest == sorted_by_first(SubSeq(s, 1, Len(s) - 1))
             x == s[Len(s)]
             k == Cardinality({i \in 1..Len(rest) : rest[i][1] <= x[1]})
         IN  SubSeq(rest, 1, k) \o <<x>> \o SubSeq(rest, k + 1, Len(rest))

\* PrefixRun.identify_files over the listing os.listdir returned: "Exception"
\* on a repeated first component, else the rows of file_data.
PrefixRun_identify_files(listing) ==
    LET files_orders == PrefixRun_files_orders(listing)
        orders == [i \in 1..Len(files_orders) |-> files_orders[i][1]]
        ordered == sorted_by_first(files_orders)
    IN  IF Len(orders) # Cardinality({orders[i] : i \in 1..Len(orders)})
          THEN [outcome |-> "Exception", file_data |-> <<>>]
          ELSE [outcome |-> "ok",
                file_data |-> [i \in 1..Len(ordered) |->
                                  <<ordered[i][1], ordered[i][2],
                                    "NA", "NA", "NA", "No">>]]

\* PrefixRun.__init__ (lines 51-70): the directory as given and the merged
\* extensions; the listing is not read.
PrefixRunConstruct ==
    /\ prefixrun.pc = "new"
    /\ prefixrun' = [prefixrun EXCEPT
                        !.pc = "ready",
                        !.directory = dirArg,
                        !.extensions = merge_extensions(default_extensions, custom)]
    /\ UNCHANGED <<inputs, shown, pc, err, exc, directory, files, extensions,
                   info, idx, start, now, rc, calls, printed, runs>>

\* PrefixRun.identify_files (lines 103-117), called by the user.
PrefixRunIdentify ==
    /\ prefixrun.pc = "ready"
    /\ \E listing \in Listings(entries) :
          LET r == PrefixRun_identify_files(listing)
          IN  IF r.outcome = "ok"
                THEN prefixrun' = [prefixrun EXCEPT !.pc = "identified",
                                                    !.file_data = r.file_data]
                ELSE prefixrun' = [prefixrun EXCEPT !.pc = "failed",
                                                    !.err = r.outcome]
    /\ UNCHANGED <<inputs, shown, pc, err, exc, directory, files, extensions,
                   info, idx, start, now, rc, calls, printed, runs>>

NextPrefixRun ==
    \/ PrefixRunConstruct
    \/ PrefixRunIdentify

SpecPrefixRun == InitDiscovery /\ [][NextPrefixRun]_vars

----------------------------------------------------------------------------
\* RunningShoes: the specification.

Next ==
    \/ Construct
    \/ DirectoryChanges
    \/ RunCall
    \/ BeginFile
    \/ InvokeKeyError
    \/ InvokeRaises
    \/ InvokeReturns
    \/ LoopDone
    \/ RunFinally
    \/ Render

Spec == Init /\ [][Next]_vars

\* Discovery alone: any directory of the pool, and the constructor.
NextDiscovery == Construct

SpecDiscovery == InitDiscovery /\ [][NextDiscovery]_vars

----------------------------------------------------------------------------
\* Vocabulary of the properties, stated on names and reports rather than on
\* the operators above.

HasHyphen(name) == \E i \in 1..Len(name) : name[i] = "-"

\* The part of a name before its first hyphen.
PrefixOf(name) ==
    SubSeq(name, 1, (CHOOSE i \in 1..Len(name) :
                        name[i] = "-" /\ \A j \in 1..(i - 1) : name[j] # "-") - 1)

Eligible(name) == HasHyphen(name) /\ int(PrefixOf(name)).ok

OrderOf(name) == int(PrefixOf(name)).val

EligibleNames(d) == {name \in d : Eligible(name)}

DuplicateOrders(d) ==
    \E a, b \in EligibleNames(d) : a # b /\ OrderOf(a) = OrderOf(b)

\* fs holds exactly the eligible names of the listing, strictly ascending
\* by integer prefix.
OrderedEligible(fs, d) ==
    /\ {fs[i] : i \in 1..Len(fs)} = EligibleNames(d)
    /\ \A i, j \in 1..Len(fs) : i < j => OrderOf(fs[i]) < OrderOf(fs[j])

\* The extension of a name: from its last dot on, or empty without a dot.
ExtensionOf(name) ==
    IF \E i \in 1..Len(name) : name[i] = "."
      THEN SubSeq(name, CHOOSE i \in 1..Len(name) :
                            name[i] = "." /\ \A j \in (i + 1)..Len(name) : name[j] # ".",
                  Len(name))
      ELSE <<>>

Constructed == pc \notin {"new", "init_failed"}

\* run() has been called and control has left it.
RunLeft == pc = "idle" /\ runs >= 1

\* The loop of the current or last run stopped on the file at position idx.
StoppedAtFile == runs >= 1 /\ pc \in {"finally", "idle"} /\ idx <= Len(files)

Finalized(rec) == DOMAIN rec = {"ran", "start_time", "end_time", "elapsed"}

StatusOf(row) == row[6]

NotAttemptedRow(row) ==
    row[3] = "NA" /\ row[4] = "NA" /\ row[5] = "NA" /\ row[6] = "NA"

----------------------------------------------------------------------------
\* Claims about discovery.

\* C1 (as claimed): for every directory listing, the listings whose eligible
\* names repeat an integer prefix set aside (they are a validation error),
\* constructing the Runner returns from identify_files with exactly the
\* eligible names, strictly ascending by integer prefix.
C1_DiscoveryReturnsOrderedEligible ==
    (pc # "new" /\ runs = 0 /\ ~DuplicateOrders(entries)) =>
        /\ pc = "idle"
        /\ OrderedEligible(files, entries)

\* What identify_files does return when it returns: exactly the eligible
\* names, strictly ascending by integer prefix.
DiscoveryOrderedWhenReturned ==
    (Constructed /\ runs = 0) => OrderedEligible(files, entries)

\* C2: construction fails with the duplicate-prefix exception whenever two
\* eligible names of the listing have the same integer prefix; with at least
\* one eligible name it fails in no other case; and after a failure there is
\* no file list, no extension map, no record and nothing to run.
C2_DuplicatePrefixFails ==
    (pc # "new" /\ runs = 0) =>
        /\ DuplicateOrders(entries) => (pc = "init_failed" /\ err = "Exception")
        /\ (EligibleNames(entries) # {} /\ ~DuplicateOrders(entries)) =>
               (pc = "idle" /\ err = "none")
        /\ pc = "init_failed" =>
               /\ files = <<>>
               /\ extensions = <<>>
               /\ info = <<>>
               /\ directory = <<>>
               /\ ~ENABLED RunCall

C2_Witness ==
    /\ pc = "init_failed"
    /\ err = "Exception"
    /\ Name_2b \in EligibleNames(entries)
    /\ Name_02c \in EligibleNames(entries)

\* C12: whatever the order in which the same entries are listed, discovery
\* gives the same result: the same ordered sequence of files, or the same
\* failure.
C12_DiscoveryOrderIndependent ==
    (pc # "new" /\ runs = 0) =>
        \A p \in Listings(entries) :
            LET r == identify_files(p)
            IN  IF pc = "init_failed"
                  THEN r.outcome = err
                  ELSE /\ r.outcome = "ok"
                       /\ r.files = files

C12_Witness ==
    /\ pc = "idle"
    /\ runs = 0
    /\ entries = {Name_10a, Name_2b, Name_1c}
    /\ files = <<Name_1c, Name_2b, Name_10a>>
    /\ identify_files(<<Name_2b, Name_1c, Name_10a>>).files = files

\* C17 (as claimed): over a listing without an eligible name, construction
\* succeeds with an empty ordered file sequence.
C17_NoEligibleFileGivesEmptyRunner ==
    (pc # "new" /\ runs = 0 /\ EligibleNames(entries) = {}) =>
        /\ pc = "idle"
        /\ err = "none"
        /\ files = <<>>

\* C18: every discovered file has a non-negative integer prefix, no two
\* discovered files have the same one, and a listed name that starts with a
\* hyphen is never discovered.
C18_OrdersNonNegativeDistinct ==
    (Constructed /\ runs = 0) =>
        /\ \A i \in 1..Len(files) :
               /\ Eligible(files[i])
               /\ OrderOf(files[i]) >= 0
               /\ Head(files[i]) # "-"
        /\ \A i, j \in 1..Len(files) :
               i # j => OrderOf(files[i]) # OrderOf(files[j])
        /\ \A name \in entries :
               Head(name) = "-" =>
                   /\ ~should_we_run_this_file(name).run
                   /\ \A j \in 1..Len(files) : files[j] # name

C18_Witness ==
    /\ pc = "idle"
    /\ runs = 0
    /\ entries = {Name_dash, Name_02c, Name_1c}
    /\ files = <<Name_1c, Name_02c>>
    /\ OrderOf(files[2]) = 2

----------------------------------------------------------------------------
\* Claims about the run loop.

\* C3: in the first run, once the file at position k has a failure record,
\* the loop has stopped there: no later file has a record, no command was
\* handed to the process collaborator for a later file, and the report
\* printed by run() shows Success for the files before k, Failure for k and
\* NA for the files after k.
C3_FailureHaltsFirstRun ==
    runs = 1 =>
        \A k \in 1..Len(files) :
            (files[k] \in DOMAIN info /\ ~info[files[k]].ran) =>
                /\ pc \in {"finally", "idle"}
                /\ Len(calls) <= k
                /\ \A j \in 1..Len(calls) :
                       calls[j][Len(calls[j])] = directory \o files[j]
                /\ \A i \in (k + 1)..Len(files) : files[i] \notin DOMAIN info
                /\ pc = "idle" =>
                       /\ Len(printed) = Len(files)
                       /\ \A i \in 1..(k - 1) : StatusOf(printed[i]) = "Success"
                       /\ StatusOf(printed[k]) = "Failure"
                       /\ \A i \in (k + 1)..Len(files) : NotAttemptedRow(printed[i])

C3_Witness ==
    /\ runs = 1
    /\ pc = "idle"
    /\ Len(files) = 3
    /\ err = "OSError"
    /\ idx = 2
    /\ StatusOf(printed[1]) = "Success"
    /\ StatusOf(printed[2]) = "Failure"
    /\ NotAttemptedRow(printed[3])

\* C4 (as claimed): when a run has stopped at a file whose extension is not
\* in the merged map, that file has no record and its row in the report reads
\* not attempted.
C4_UnknownExtensionLeavesNoRecord ==
    (StoppedAtFile /\ pc = "idle"
       /\ ExtensionOf(files[idx]) \notin DOMAIN extensions) =>
        /\ files[idx] \notin DOMAIN info
        /\ NotAttemptedRow(printed[idx])

\* C5: when the invocation of a file raises, the file's record says ran =
\* FALSE and holds an end time and an elapsed value, the loop is left, the
\* report printed by run() is the projection of the records as they are then
\* (the failing file shown as Failure), and the exception that was raised is
\* the one that leaves run().
C5_FailureRecordedThenSurfaced ==
    /\ [](StoppedAtFile =>
            /\ files[idx] \in DOMAIN info
            /\ ~info[files[idx]].ran
            /\ {"end_time", "elapsed"} \subseteq DOMAIN info[files[idx]]
            /\ (pc = "finally" => exc \in {"KeyError", "OSError"})
            /\ (rc = "raised" => (IF pc = "finally" THEN exc ELSE err) = "OSError")
            /\ pc = "idle" =>
                   /\ err \in {"KeyError", "OSError"}
                   /\ Len(printed) = Len(files)
                   /\ StatusOf(printed[idx]) = "Failure"
                   /\ \A i \in 1..idx :
                          /\ printed[i][3] = info[files[i]].start_time
                          /\ printed[i][4] = info[files[i]].end_time
                          /\ printed[i][5] = info[files[i]].elapsed)
    /\ [][(pc = "finally" /\ exc # "none") =>
             (pc' = "idle" /\ err' = exc /\ info' = info)]_vars

C5_Witness ==
    /\ pc = "idle"
    /\ runs = 1
    /\ rc = "raised"
    /\ err = "OSError"
    /\ idx = 1
    /\ Len(files) >= 2
    /\ StatusOf(printed[1]) = "Failure"
    /\ printed[1][4] = info[files[1]].end_time

\* C6: once control has left run(), by return or by exception, every record
\* that exists holds a start time, an end time, an elapsed value and a
\* status.
C6_RecordsFinalizedAfterRun ==
    RunLeft => \A f \in DOMAIN info : Finalized(info[f])

C6_Witness ==
    /\ RunLeft
    /\ err = "OSError"
    /\ Cardinality(DOMAIN info) = 3
    /\ idx = 3
    /\ \A f \in DOMAIN info : Finalized(info[f])

\* C7: when the child of a file exits with a non-zero status and the
\* spawn-and-wait call returns, no exception is raised, the file's record is
\* finalized with ran = TRUE, and the loop is at the next file, which it
\* starts if there is one.
C7_NonZeroExitIsSuccess ==
    rc = "exit1" =>
        /\ exc = "none"
        /\ err = "none"
        /\ idx > 1
        /\ Finalized(info[files[idx - 1]])
        /\ info[files[idx - 1]].ran
        /\ idx <= Len(files) => (pc = "loop" /\ ENABLED BeginFile)

C7_Witness ==
    /\ rc = "exit1"
    /\ pc = "loop"
    /\ idx = 2
    /\ Len(files) = 3
    /\ info[files[1]].ran

\* C8: every call of run() starts its loop at the first ordered file,
\* whatever the last run did; the ordered file list never changes after
\* construction, even when the directory does; and a file that is attempted
\* again gets a new record in place of its old one.
C8_RunRestartsFromFirstFile ==
    /\ [][runs' # runs => (idx' = 1 /\ pc' = "loop")]_vars
    /\ [][Constructed => files' = files]_vars
    /\ [](Constructed =>
            /\ \A j \in 1..Len(calls) :
                   calls[j][Len(calls[j])] = directory \o files[j]
            /\ pc = "call" =>
                   info[files[idx]] = [ran |-> TRUE, start_time |-> strftime(now)]
            /\ (pc = "loop" /\ idx > 1) =>
                   /\ info[files[idx - 1]].ran
                   /\ \E t \in info[files[idx - 1]].start_time[2]..now :
                          info[files[idx - 1]].end_time = strftime(t))

C8_Witness ==
    /\ runs = 2
    /\ pc = "loop"
    /\ idx = 3
    /\ Len(files) = 3
    /\ Len(calls) = 2
    /\ Cardinality(entries) < Len(files)
    /\ info[files[2]].ran
    /\ files[3] \in DOMAIN info
    /\ ~info[files[3]].ran

\* C13 (as claimed): the report printed by any run that stopped at a file
\* shows every later file as not attempted, whatever earlier runs did.
C13_ReportShowsOnlyLastRun ==
    (StoppedAtFile /\ pc = "idle") =>
        \A i \in (idx + 1)..Len(files) : NotAttemptedRow(printed[i])

\* C14: at most one record is in progress, and only while its file is being
\* invoked; a file is started only when every file before it has a finalized
\* record with ran = TRUE; and up to the end of the first run the files that
\* have a record are the first m of the ordered list, all successful except
\* possibly the last.
C14_StrictlySequential ==
    Constructed =>
        /\ Cardinality({f \in DOMAIN info : ~Finalized(info[f])}) <= 1
        /\ \A f \in DOMAIN info :
               ~Finalized(info[f]) => (pc = "call" /\ f = files[idx])
        /\ pc = "call" =>
               \A i \in 1..(idx - 1) :
                   /\ files[i] \in DOMAIN info
                   /\ Finalized(info[files[i]])
                   /\ info[files[i]].ran
        /\ runs <= 1 =>
               \E m \in 0..Len(files) :
                   /\ DOMAIN info = {files[i] : i \in 1..m}
                   /\ \A i \in 1..(m - 1) : info[files[i]].ran

C14_Witness ==
    /\ pc = "call"
    /\ runs = 1
    /\ idx = 3
    /\ Finalized(info[files[1]]) /\ info[files[1]].ran
    /\ Finalized(info[files[2]]) /\ info[files[2]].ran
    /\ ~Finalized(info[files[3]])

----------------------------------------------------------------------------
\* Claims about the extension map and the command.

\* C9: the merged extension map is the default table overridden key by key
\* by the custom entries: a custom key has the custom command, whether it is
\* a default key or a new one, every other default key has its default
\* command, and there is no other key.
C9_ExtensionsMergedKeyByKey ==
    Constructed =>
        LET given == IF custom.given THEN DOMAIN custom.map ELSE {}
        IN  /\ DOMAIN extensions = {Ext_hql, Ext_py, Ext_R, Ext_scala, Ext_sh} \cup given
            /\ \A k \in given : extensions[k] = custom.map[k]
            /\ Ext_hql \notin given => extensions[Ext_hql] = <<Tok_hive, Tok_f>>
            /\ Ext_py \notin given => extensions[Ext_py] = <<Tok_python>>
            /\ Ext_R \notin given => extensions[Ext_R] = <<Tok_Rscript>>
            /\ Ext_scala \notin given => extensions[Ext_scala] = <<Tok_scala>>
            /\ Ext_sh \notin given => extensions[Ext_sh] = <<Tok_bash>>

C9_Witness ==
    /\ Constructed
    /\ custom.given
    /\ Ext_sh \in DOMAIN custom.map
    /\ extensions[Ext_sh] = <<Tok_zsh>>
    /\ extensions[Ext_py] = <<Tok_python>>
    /\ extensions[Ext_hql] = <<Tok_hive, Tok_f>>

\* C10: every command handed to the process collaborator is the token
\* sequence mapped to the file's extension followed by exactly one more
\* token, which for every file of the run is the directory joined with the
\* file's name; and run_file given the map {.sh: [bash]} and 1-run.sh builds
\* [bash, 1-run.sh].
C10_CommandIsTokensThenFile ==
    /\ \A j \in 1..Len(calls) :
           LET ext == ExtensionOf(files[j])
           IN  /\ ext \in DOMAIN extensions
               /\ Len(calls[j]) = Len(extensions[ext]) + 1
               /\ SubSeq(calls[j], 1, Len(calls[j]) - 1) = extensions[ext]
               /\ calls[j][Len(calls[j])] = directory \o files[j]
    /\ run_file_call(Ext_sh :> <<Tok_bash>>, <<"1", "-", "r", "u", "n", ".", "s", "h">>)
           = <<Tok_bash, <<"1", "-", "r", "u", "n", ".", "s", "h">>>>

C10_Witness ==
    /\ Len(calls) = 2
    /\ files[1] = Name_1c
    /\ files[2] = Name_10a
    /\ custom.given
    /\ Ext_sh \in DOMAIN custom.map
    /\ calls[1] = <<Tok_python, directory \o Name_1c>>
    /\ calls[2] = <<Tok_zsh, directory \o Name_10a>>

----------------------------------------------------------------------------
\* Claims about the report.

\* The reports that exist in a state: the one run() printed when it was left,
\* and the one format_file_data returned to the caller since.
ReportsNow ==
    (IF RunLeft THEN {printed} ELSE {}) \cup (IF shown # <<>> THEN {shown} ELSE {})

\* C15: a rendering between two runs leaves the records, the ordered file
\* list, the extension map and the directory as they are; a second rendering
\* with no run() in between returns the same rows as the first; the rows are
\* the projection of the records; and records are created or changed only by
\* steps of the run loop.
C15_RenderingIsPure ==
    /\ [][(shown' # shown /\ shown' # <<>>) =>
             (/\ info' = info
              /\ files' = files
              /\ extensions' = extensions
              /\ directory' = directory
              /\ printed' = printed)]_vars
    /\ [][(shown # <<>> /\ shown' # <<>>) => shown' = shown]_vars
    /\ [][info' # info => pc \in {"loop", "call"}]_vars
    /\ [][pc = "finally" => (info' = info /\ files' = files /\ extensions' = extensions)]_vars
    /\ [](shown # <<>> =>
            /\ Len(shown) = Len(files)
            /\ \A i \in 1..Len(files) :
                   (files[i] \in DOMAIN info) = ~NotAttemptedRow(shown[i]))

C15_Witness ==
    /\ RunLeft
    /\ err = "OSError"
    /\ idx = 2
    /\ Len(files) = 3
    /\ shown # <<>>
    /\ shown = printed
    /\ NotAttemptedRow(shown[3])

\* C11 (as claimed): every report has one row per discovered file, in
\* discovery order, and the Order value of a row is the integer prefix of
\* its file.
C11_OrderColumnIsPrefix ==
    \A report \in ReportsNow :
        /\ Len(report) = Len(files)
        /\ \A i \in 1..Len(files) :
               /\ report[i][2] = files[i]
               /\ report[i][1] = OrderOf(files[i])

\* C11 (amended): every report has one row per discovered file, in discovery
\* order (ascending integer prefix), and the Order value of a row is the
\* position of its file in that order, counted from 1.
C11_OrderColumnIsPosition ==
    \A report \in ReportsNow :
        /\ Len(report) = Len(files)
        /\ \A i \in 1..Len(files) :
               /\ report[i][2] = files[i]
               /\ report[i][1] = i
        /\ \A i, j \in 1..Len(files) : i < j => OrderOf(files[i]) < OrderOf(files[j])

C11_Witness ==
    /\ pc = "idle"
    /\ files = <<Name_2b, Name_10a>>
    /\ shown # <<>>
    /\ shown[1][1] = 1 /\ OrderOf(shown[1][2]) = 2
    /\ shown[2][1] = 2 /\ OrderOf(shown[2][2]) = 10


\* C16: in every report, the row of a file without a record has NA in the
\* start time, end time, elapsed and status columns, and the row of a file
\* with a record has the recorded start time, end time and elapsed value and
\* the status Success when ran is TRUE, Failure when it is FALSE; so a row
\* is in exactly one of the three states.
C16_RowsRenderThreeStates ==
    \A report \in ReportsNow :
        \A i \in 1..Len(files) :
            IF files[i] \in DOMAIN info
              THEN /\ info[files[i]].start_time = report[i][3]
                   /\ info[files[i]].end_time = report[i][4]
                   /\ info[files[i]].elapsed = report[i][5]
                   /\ StatusOf(report[i]) \in {"Success", "Failure"}
                   /\ (StatusOf(report[i]) = "Success") = info[files[i]].ran
                   /\ ~NotAttemptedRow(report[i])
              ELSE /\ report[i][3] = "NA"
                   /\ report[i][4] = "NA"
                   /\ report[i][5] = "NA"
                   /\ StatusOf(report[i]) = "NA"

C16_Witness ==
    /\ RunLeft
    /\ err = "KeyError"
    /\ Len(files) = 3
    /\ idx = 2
    /\ shown # <<>>
    /\ StatusOf(shown[1]) = "Success"
    /\ StatusOf(shown[2]) = "Failure"
    /\ StatusOf(shown[3]) = "NA"


----------------------------------------------------------------------------
\* Claims about the directory.

\* Directory strings of one to three characters.
DirectorySamples ==
    UNION {[1..n -> {"d", "/", "."}] : n \in 1..3}

\* C20: the directory kept by the Runner ends with the separator; it is the
\* argument itself when the argument ends with the separator and the
\* argument with one separator appended otherwise; normalizing it again
\* changes nothing.  The same holds of ensure_trailing_slash on every short
\* non-empty directory string.
C20_TrailingSlashNormalized ==
    (Constructed /\ runs = 0) =>
        /\ directory[Len(directory)] = "/"
        /\ dirArg[Len(dirArg)] = "/" => directory = dirArg
        /\ dirArg[Len(dirArg)] # "/" => directory = dirArg \o <<"/">>
        /\ ensure_trailing_slash(directory) = directory
        /\ \A d \in DirectorySamples :
               LET once == ensure_trailing_slash(d)
               IN  /\ once[Len(once)] = "/"
                   /\ Len(once) = IF d[Len(d)] = "/" THEN Len(d) ELSE Len(d) + 1
                   /\ SubSeq(once, 1, Len(d)) = d
                   /\ ensure_trailing_slash(once) = once

C20_Witness ==
    /\ pc = "idle"
    /\ runs = 0
    /\ dirArg = <<"d">>
    /\ directory = <<"d", "/">>
    /\ ensure_trailing_slash(directory) = <<"d", "/">>


----------------------------------------------------------------------------
\* Claims about PrefixRun.

\* C19 (as claimed): PrefixRun.identify_files raises only when two eligible
\* names of the listing have the same integer prefix; otherwise file_data
\* has one row per eligible name, in ascending order of integer prefix, each
\* row holding the prefix, the name and NA, NA, NA, No.
C19_PrefixRunRowsByPrefix ==
    prefixrun.pc \in {"identified", "failed"} =>
        /\ prefixrun.pc = "failed" => DuplicateOrders(entries)
        /\ ~DuplicateOrders(entries) =>
               /\ prefixrun.pc = "identified"
               /\ Len(prefixrun.file_data) = Cardinality(EligibleNames(entries))
               /\ \A i \in 1..Len(prefixrun.file_data) :
                      LET row == prefixrun.file_data[i]
                      IN  /\ row[2] \in EligibleNames(entries)
                          /\ row[1] = OrderOf(row[2])
                          /\ row[3] = "NA" /\ row[4] = "NA" /\ row[5] = "NA"
                          /\ row[6] = "No"
               /\ \A i, j \in 1..Len(prefixrun.file_data) :
                      i < j => OrderOf(prefixrun.file_data[i][2])
                                   < OrderOf(prefixrun.file_data[j][2])

====
